---- MODULE Spec2Model ----
(***************************************************************************)
(* A model of state.CoreAccessor (src/state/core_access.go): the session   *)
(* lifecycle (Start, Stop, cancelCtx, IsStopped), the proof-carrying       *)
(* balance query (BalanceForAddress), the transaction-building operations  *)
(* (Transfer, Delegate, Undelegate, BeginRedelegate,                       *)
(* CancelUnbondingDelegation through constructSignedTx and SubmitTx), the  *)
(* broadcasts of caller-built transactions (SubmitTx,                      *)
(* SubmitTxWithBroadcastMode) and SubmitPayForData with its two counters.  *)
(* Concurrent callers interleave at the calls of the signer and the node   *)
(* and at the loads and stores of the accessor's fields.                   *)
(*                                                                         *)
(* Handles are modelled by identity: the n-th Start that passes the        *)
(* already-connected guard creates lifetime context n and, when the dial   *)
(* succeeds, connection n.  A nil pointer or nil interface is Nil.  A Go   *)
(* panic that nothing recovers ends the process: it sets crashed, and no   *)
(* operation runs afterwards.                                              *)
(***************************************************************************)
EXTENDS Integers, Sequences, FiniteSets, TLC

\* Go's nil for a pointer, an interface or a func value; ids start at 1.
Nil == 0

\* ------------------------------------------------------------------ bounds
\* Lifetime contexts (calls of context.WithCancel) a behaviour may create.
MaxCtx == 3

Ids == 1..MaxCtx

\* ------------------------------------------------------------------ errors
NoErr == "nil"
ErrAlreadyConnected == "core-access: already connected to core endpoint"
ErrDial == "grpc.DialContext error"
ErrRPCClient == "http.New error"
ErrClose == "coreConn.Close error"
Panic == "panic"

VARIABLES
    ctx,             \* ca.ctx: Nil or the id of the lifetime context
    cancel,          \* ca.cancel: Nil or the id of the context it cancels
    queryCli,        \* ca.queryCli: Nil or the id of the connection it wraps
    stakingCli,      \* ca.stakingCli: Nil or the id of the connection it wraps
    rpcCli,          \* ca.rpcCli: Nil or the id of the Start that created it
    coreConn,        \* ca.coreConn: Nil or the id of the connection
    lastPayForData,  \* ca.lastPayForData
    payForDataCount, \* ca.payForDataCount
    nextId,          \* contexts created so far
    canceled,        \* the contexts whose Err() is non-nil
    cancelCalls,     \* per context: how often its cancel function was invoked
    closeCalls,      \* per connection: how often Close was called on it
    crashed,         \* an unrecovered panic ended the process
    stoppedSince,    \* a Stop call has returned and Start was not called since
    headAns,         \* what ca.getter.Head answers
    nodeAns,         \* what the node answers to an ABCI query
    request,         \* per caller: the operation and arguments it calls with
    clock,           \* what time.Now().UnixMilli() reads
    succeeded,       \* SubmitPayForData calls that have returned a success
    call,            \* per caller: the transaction operation it runs or ran last
    signerSeq,       \* the sequence number the signer holds
    chainSeq,        \* the signer account's sequence number on the chain
    last             \* the last completed call: operation, outcome, state before

accessor == <<ctx, cancel, queryCli, stakingCli, rpcCli, coreConn,
              lastPayForData, payForDataCount>>
runtime == <<nextId, canceled, cancelCalls, closeCalls>>
environment == <<headAns, nodeAns, request, clock>>
signing == <<call, signerSeq, chainSeq>>
vars == <<accessor, runtime, crashed, stoppedSince, environment, succeeded, signing,
          last>>

\* The fields of the CoreAccessor struct that the lifecycle touches.
Fields ==
    [ctx |-> ctx, cancel |-> cancel, queryCli |-> queryCli,
     stakingCli |-> stakingCli, rpcCli |-> rpcCli, coreConn |-> coreConn,
     lastPayForData |-> lastPayForData, payForDataCount |-> payForDataCount]

\* What the contexts and connections have been asked to do so far.
Effects == [canceled |-> canceled, cancelCalls |-> cancelCalls, closeCalls |-> closeCalls]

\* ---------------------------------------------------------------- callers
\* Goroutines that call the transaction operations.
NumCallers == 2

Callers == 1..NumCallers

\* int64, scaled down to this many bits.
Int64Bits == 3

MinInt64 == -(2 ^ (Int64Bits - 1))

MaxInt64 == 2 ^ (Int64Bits - 1) - 1

\* An sdktypes.Int: nil (no big.Int behind it) or any integer; it is wider
\* than int64.
NilInt == [nil |-> TRUE, v |-> 0]

IntOf(n) == [nil |-> FALSE, v |-> n]

\* What a caller passes to a transaction operation.
DefaultRequest ==
    [op |-> "Transfer", amount |-> IntOf(1), height |-> NilInt, tx |-> 0,
     mode |-> "BROADCAST_MODE_BLOCK"]

\* A caller that has called nothing yet.
IdleCall ==
    [pc |-> "idle", op |-> "none", amount |-> NilInt, height |-> NilInt,
     events |-> <<>>, txSeq |-> 0, msgHeight |-> 0, conn |-> Nil,
     mode |-> "BROADCAST_MODE_BLOCK", peerWaiting |-> FALSE, contended |-> FALSE,
     answer |-> <<>>,
     stamp |-> 0, loaded |-> 0, wrote |-> FALSE, resp |-> <<>>, err |-> NoErr]

\* ------------------------------------------------------------ construction
\* NewCoreAccessor sets signer, getter and the endpoint strings only.
InitAccessor ==
    /\ ctx = Nil
    /\ cancel = Nil
    /\ queryCli = Nil
    /\ stakingCli = Nil
    /\ rpcCli = Nil
    /\ coreConn = Nil
    /\ lastPayForData = 0
    /\ payForDataCount = 0
    /\ nextId = 0
    /\ canceled = {}
    /\ cancelCalls = [i \in {} |-> 0]
    /\ closeCalls = [i \in {} |-> 0]
    /\ crashed = FALSE
    /\ stoppedSince = FALSE
    /\ clock = 1
    /\ succeeded = 0
    /\ call = [p \in Callers |-> IdleCall]
    /\ signerSeq = 0
    /\ chainSeq = 0
    /\ last = [op |-> "NewCoreAccessor"]

\* f with key k set to v, k added to the domain when it is new.
Put(f, k, v) == [x \in DOMAIN f \cup {k} |-> IF x = k THEN v ELSE f[x]]

Count(f, k) == IF k \in DOMAIN f THEN f[k] ELSE 0

\* ------------------------------------------------------------------- Start
\* dialOk: grpc.DialContext returned a connection.  rpcOk: http.New returned
\* a client.
StartCreatesContextFirst(dialOk, rpcOk) ==
    /\ ~crashed
    /\ stoppedSince' = FALSE
    /\ UNCHANGED <<environment, succeeded, signing>>
    /\ IF coreConn # Nil
       THEN /\ nextId < MaxCtx
            /\ nextId' = nextId + 1
            /\ ctx' = nextId'
            /\ cancel' = nextId'
            /\ cancelCalls' = Put(cancelCalls, nextId', 0)
            /\ last' = [op |-> "Start", err |-> ErrAlreadyConnected,
                        pre |-> Fields, eff |-> Effects]
            /\ UNCHANGED <<queryCli, stakingCli, rpcCli, coreConn, lastPayForData,
                           payForDataCount, canceled, closeCalls, crashed>>
       ELSE /\ nextId < MaxCtx
            /\ nextId' = nextId + 1
            /\ ctx' = nextId'
            /\ cancel' = nextId'
            /\ cancelCalls' = Put(cancelCalls, nextId', 0)
            /\ IF ~dialOk
               THEN /\ last' = [op |-> "Start", err |-> ErrDial,
                                pre |-> Fields, eff |-> Effects]
                    /\ UNCHANGED <<coreConn, queryCli, stakingCli, rpcCli>>
                    /\ UNCHANGED closeCalls
               ELSE /\ coreConn' = nextId'
                    /\ closeCalls' = Put(closeCalls, nextId', 0)
                    /\ queryCli' = nextId'
                    /\ stakingCli' = nextId'
                    /\ IF ~rpcOk
                       THEN /\ last' = [op |-> "Start", err |-> ErrRPCClient,
                                        pre |-> Fields, eff |-> Effects]
                            /\ UNCHANGED rpcCli
                       ELSE /\ rpcCli' = nextId'
                            /\ last' = [op |-> "Start", err |-> NoErr,
                                        pre |-> Fields, eff |-> Effects]
            /\ UNCHANGED <<lastPayForData, payForDataCount, canceled, crashed>>

Start(dialOk, rpcOk) ==
    /\ ~crashed
    /\ stoppedSince' = FALSE
    /\ UNCHANGED <<environment, succeeded, signing>>
    /\ IF coreConn # Nil
       THEN /\ last' = [op |-> "Start", err |-> ErrAlreadyConnected,
                        pre |-> Fields, eff |-> Effects]
            /\ UNCHANGED <<accessor, runtime, crashed>>
       ELSE /\ nextId < MaxCtx
            /\ nextId' = nextId + 1
            /\ ctx' = nextId'
            /\ cancel' = nextId'
            /\ cancelCalls' = Put(cancelCalls, nextId', 0)
            /\ IF ~dialOk
               THEN /\ last' = [op |-> "Start", err |-> ErrDial,
                                pre |-> Fields, eff |-> Effects]
                    /\ UNCHANGED <<coreConn, queryCli, stakingCli, rpcCli>>
                    /\ UNCHANGED closeCalls
               ELSE /\ coreConn' = nextId'
                    /\ closeCalls' = Put(closeCalls, nextId', 0)
                    /\ queryCli' = nextId'
                    /\ stakingCli' = nextId'
                    /\ IF ~rpcOk
                       THEN /\ last' = [op |-> "Start", err |-> ErrRPCClient,
                                        pre |-> Fields, eff |-> Effects]
                            /\ UNCHANGED rpcCli
                       ELSE /\ rpcCli' = nextId'
                            /\ last' = [op |-> "Start", err |-> NoErr,
                                        pre |-> Fields, eff |-> Effects]
            /\ UNCHANGED <<lastPayForData, payForDataCount, canceled, crashed>>

\* --------------------------------------------------------------- cancelCtx
\* ca.cancel() and ca.cancel = nil.  Its one caller, Stop, reaches it with
\* ca.cancel non-nil.
cancelCtxKeepsCancel ==
    /\ cancelCalls' = Put(cancelCalls, cancel, Count(cancelCalls, cancel) + 1)
    /\ canceled' = canceled \cup {cancel}
    /\ UNCHANGED cancel

cancelCtx ==
    /\ cancelCalls' = Put(cancelCalls, cancel, Count(cancelCalls, cancel) + 1)
    /\ canceled' = canceled \cup {cancel}
    /\ cancel' = Nil

\* -------------------------------------------------------------------- Stop
\* closeOk: coreConn.Close returned nil.  The deferred cancelCtx runs on both
\* returns that follow the defer statement.
StopDefersFirst(closeOk) ==
    /\ ~crashed
    /\ stoppedSince' = TRUE
    /\ UNCHANGED <<environment, succeeded, signing>>
    /\ IF cancel = Nil
       THEN /\ crashed' = TRUE
            /\ last' = [op |-> "Stop", err |-> Panic, afterStop |-> stoppedSince,
                        pre |-> Fields, eff |-> Effects]
            /\ UNCHANGED <<accessor, runtime>>
       ELSE /\ cancelCtx
            /\ IF coreConn = Nil
               THEN /\ last' = [op |-> "Stop", err |-> NoErr, afterStop |-> stoppedSince,
                                pre |-> Fields, eff |-> Effects]
                    /\ UNCHANGED <<coreConn, queryCli, closeCalls>>
               ELSE /\ closeCalls' = Put(closeCalls, coreConn, Count(closeCalls, coreConn) + 1)
                    /\ IF closeOk
                       THEN /\ coreConn' = Nil
                            /\ queryCli' = Nil
                            /\ last' = [op |-> "Stop", err |-> NoErr,
                                        afterStop |-> stoppedSince,
                                        pre |-> Fields, eff |-> Effects]
                       ELSE /\ last' = [op |-> "Stop", err |-> ErrClose,
                                        afterStop |-> stoppedSince,
                                        pre |-> Fields, eff |-> Effects]
                            /\ UNCHANGED <<coreConn, queryCli>>
            /\ UNCHANGED <<ctx, stakingCli, rpcCli, lastPayForData, payForDataCount,
                           nextId, crashed>>

Stop(closeOk) ==
    /\ ~crashed
    /\ stoppedSince' = TRUE
    /\ UNCHANGED <<environment, succeeded, signing>>
    /\ IF cancel = Nil \/ coreConn = Nil
       THEN /\ last' = [op |-> "Stop", err |-> NoErr, afterStop |-> stoppedSince,
                        pre |-> Fields, eff |-> Effects]
            /\ UNCHANGED <<accessor, runtime, crashed>>
       ELSE /\ closeCalls' = Put(closeCalls, coreConn, Count(closeCalls, coreConn) + 1)
            /\ IF closeOk
               THEN /\ coreConn' = Nil
                    /\ queryCli' = Nil
                    /\ last' = [op |-> "Stop", err |-> NoErr, afterStop |-> stoppedSince,
                                pre |-> Fields, eff |-> Effects]
               ELSE /\ last' = [op |-> "Stop", err |-> ErrClose, afterStop |-> stoppedSince,
                                pre |-> Fields, eff |-> Effects]
                    /\ UNCHANGED <<coreConn, queryCli>>
            /\ cancelCtx
            /\ UNCHANGED <<ctx, stakingCli, rpcCli, lastPayForData, payForDataCount,
                           nextId, crashed>>

\* --------------------------------------------------------------- IsStopped
\* ca.ctx.Err() on a nil context.Context interface is a nil dereference.
IsStopped ==
    /\ ~crashed
    /\ IF ctx = Nil
       THEN /\ crashed' = TRUE
            /\ last' = [op |-> "IsStopped", err |-> Panic, pre |-> Fields, eff |-> Effects]
       ELSE /\ last' = [op |-> "IsStopped", err |-> NoErr, ret |-> (ctx \in canceled),
                        pre |-> Fields, eff |-> Effects]
            /\ UNCHANGED crashed
    /\ UNCHANGED <<accessor, runtime, stoppedSince, environment, succeeded,
                   signing>>

\* ------------------------------------------------------- the chain's state
\* Heights of the heads the header source may return.
MaxHeight == 3

\* Length of the values the node may answer a query with.
MaxValLen == 2

Heights == 1..MaxHeight

Addrs == {"addr1", "addr2"}

\* app.BondDenom and banktypes.StoreKey.
BondDenom == "utia"

StoreKey == "bank"

\* The bytes of a query response's value, one character each.
Chars == {"1", "x"}

Values == UNION {[1..n -> Chars] : n \in 0..MaxValLen}

\* banktypes.CreateAccountBalancesPrefix(addr) followed by the denom.
PrefixedAccountKey(addr) == <<"balances", addr, BondDenom>>

\* What the bank store holds under a key once block h is applied (<<>>: no
\* such key).  addr1 is funded from genesis and topped up in block 2; addr2
\* receives its first coins in block 2.
StoreValue(key, h) ==
    IF key = PrefixedAccountKey("addr1")
    THEN (IF h < 2 THEN <<"1">> ELSE <<"1", "1">>)
    ELSE IF key = PrefixedAccountKey("addr2")
    THEN (IF h < 2 THEN <<>> ELSE <<"1">>)
    ELSE <<>>

\* The state root after block h is applied; one root per height.
RootAt(h) == <<"root", h>>

BadRoot == <<"root", -1>>

\* The header of block h commits, in AppHash, to the state after block h - 1.
HeadAt(h) == [Height |-> h, AppHash |-> RootAt(h - 1)]

\* Proof operations as a node may send them: the Merkle path of a key in the
\* state after block ht, or (forged) bytes that are no such path.
Proofs == [key : {PrefixedAccountKey(a) : a \in Addrs},
           ht : 0..(MaxHeight - 1),
           forged : BOOLEAN]

\* The root the proof operations compute from a value at a path: the root of
\* the state the path was cut from when value is the leaf under that key, and
\* no root of the chain otherwise.
ComputeRoot(proof, path, value) ==
    IF /\ ~proof.forged
       /\ path = <<StoreKey, proof.key>>
       /\ value # <<>>
       /\ value = StoreValue(proof.key, proof.ht)
    THEN RootAt(proof.ht)
    ELSE BadRoot

\* rootmulti.DefaultProofRuntime().VerifyValue: nil exactly when the computed
\* root is the given root.
VerifyValue(proof, root, path, value) == ComputeRoot(proof, path, value) = root

\* sdktypes.NewIntFromString on a string of the characters above: the
\* decimal number, or not ok when a character is no digit.
IsDigit(c) == c = "1"

DigitVal(c) == 1

RECURSIVE ParseDigits(_, _)
ParseDigits(str, acc) ==
    IF str = <<>> THEN acc
    ELSE ParseDigits(Tail(str), 10 * acc + DigitVal(Head(str)))

NewIntFromString(str) ==
    IF str # <<>> /\ \A i \in 1..Len(str) : IsDigit(str[i])
    THEN [ok |-> TRUE, int |-> ParseDigits(str, 0)]
    ELSE [ok |-> FALSE, int |-> 0]

\* ------------------------------------------------------- BalanceForAddress
ErrHead == "getter.Head error"
ErrQuery == "ABCIQueryWithOptions error"
ErrNotOK == "response code is not OK"
ErrConvert == "cannot convert value into sdktypes.Int"
ErrProof == "VerifyValue error"

\* What the header source answers: an error, or the head of some height.
HeadResults == {[err |-> TRUE, head |-> HeadAt(1)]}
               \cup {[err |-> FALSE, head |-> HeadAt(h)] : h \in Heights}

\* What the node answers to the ABCI query: a transport error, a response
\* whose code is not OK, or an OK response with any value and any proof.
QueryResults ==
    {[kind |-> k, value |-> <<>>, proof |-> CHOOSE p \in Proofs : TRUE] : k \in {"err", "notOK"}}
    \cup [kind : {"ok"}, value : Values, proof : Proofs]

\* A header source that fails and a node that is unreachable.
QuietChain ==
    /\ headAns = [err |-> TRUE, head |-> HeadAt(1)]
    /\ nodeAns = [kind |-> "err", value |-> <<>>, proof |-> CHOOSE p \in Proofs : TRUE]

\* Any header source and any node, honest or not.
InitBalance ==
    /\ InitAccessor
    /\ headAns \in HeadResults
    /\ nodeAns \in QueryResults
    /\ request = [p \in Callers |-> DefaultRequest]

\* abciReq.Height.
QueryHeightAtHead(head) == head.Height

QueryHeight(head) == head.Height - 1

\* The root handed to VerifyValue.
TrustedRoot(head) == head.AppHash

\* The call's outcome after the head was fetched and with ca.rpcCli bound:
\* the request it issued, the verification it ran, the balance and the error
\* it returns (balance <<>>: a nil *Balance).
BalanceOutcomeTrustsNode(addr, head, q) ==
    LET base == [queried |-> TRUE, queryHeight |-> QueryHeight(head),
                 queryKey |-> PrefixedAccountKey(addr), prove |-> TRUE,
                 verified |-> FALSE, root |-> BadRoot,
                 balance |-> <<>>, err |-> NoErr]
        coin == NewIntFromString(q.value)
    IN  IF q.kind = "err" THEN [base EXCEPT !.err = ErrQuery]
        ELSE IF q.kind = "notOK" THEN [base EXCEPT !.err = ErrNotOK]
        ELSE IF q.value = <<>>
        THEN [base EXCEPT !.balance = <<[Denom |-> BondDenom, Amount |-> 0]>>]
        ELSE IF ~coin.ok THEN [base EXCEPT !.err = ErrConvert]
        ELSE [base EXCEPT !.verified = TRUE, !.root = TrustedRoot(head),
                          !.balance = <<[Denom |-> BondDenom, Amount |-> coin.int]>>]

BalanceOutcomeVerifiesEmpty(addr, head, q) ==
    LET base == [queried |-> TRUE, queryHeight |-> QueryHeight(head),
                 queryKey |-> PrefixedAccountKey(addr), prove |-> TRUE,
                 verified |-> FALSE, root |-> BadRoot,
                 balance |-> <<>>, err |-> NoErr]
        coin == NewIntFromString(q.value)
        path == <<StoreKey, PrefixedAccountKey(addr)>>
    IN  IF q.kind = "err" THEN [base EXCEPT !.err = ErrQuery]
        ELSE IF q.kind = "notOK" THEN [base EXCEPT !.err = ErrNotOK]
        ELSE IF q.value # <<>> /\ ~coin.ok THEN [base EXCEPT !.err = ErrConvert]
        ELSE IF ~VerifyValue(q.proof, TrustedRoot(head), path, q.value)
        THEN [base EXCEPT !.verified = TRUE, !.root = TrustedRoot(head),
                          !.err = ErrProof]
        ELSE [base EXCEPT !.verified = TRUE, !.root = TrustedRoot(head),
                          !.balance = <<[Denom |-> BondDenom,
                                         Amount |-> IF q.value = <<>> THEN 0 ELSE coin.int]>>]

BalanceOutcome(addr, head, q) ==
    LET base == [queried |-> TRUE, queryHeight |-> QueryHeight(head),
                 queryKey |-> PrefixedAccountKey(addr), prove |-> TRUE,
                 verified |-> FALSE, root |-> BadRoot,
                 balance |-> <<>>, err |-> NoErr]
        coin == NewIntFromString(q.value)
        path == <<StoreKey, PrefixedAccountKey(addr)>>
    IN  IF q.kind = "err" THEN [base EXCEPT !.err = ErrQuery]
        ELSE IF q.kind = "notOK" THEN [base EXCEPT !.err = ErrNotOK]
        ELSE IF q.value = <<>>
        THEN [base EXCEPT !.balance = <<[Denom |-> BondDenom, Amount |-> 0]>>]
        ELSE IF ~coin.ok THEN [base EXCEPT !.err = ErrConvert]
        ELSE IF ~VerifyValue(q.proof, TrustedRoot(head), path, q.value)
        THEN [base EXCEPT !.verified = TRUE, !.root = TrustedRoot(head),
                          !.err = ErrProof]
        ELSE [base EXCEPT !.verified = TRUE, !.root = TrustedRoot(head),
                          !.balance = <<[Denom |-> BondDenom, Amount |-> coin.int]>>]

\* What BalanceForAddress returns: the head's error before anything is
\* queried; a panic when ca.rpcCli is nil, since ABCIQueryWithOptions is then a
\* call on a nil interface; the outcome of the query otherwise.
BalanceReturn(addr) ==
    LET none == [queried |-> FALSE, queryHeight |-> 0,
                 queryKey |-> PrefixedAccountKey(addr), prove |-> TRUE,
                 verified |-> FALSE, root |-> BadRoot,
                 balance |-> <<>>, err |-> NoErr]
    IN  IF headAns.err THEN [none EXCEPT !.err = ErrHead]
        ELSE IF rpcCli = Nil THEN [none EXCEPT !.err = Panic]
        ELSE BalanceOutcome(addr, headAns.head, nodeAns)

\* What the call just before this one returned, when that was a
\* BalanceForAddress for the same address; <<>> otherwise.
PrevBalance(addr) ==
    IF last.op = "BalanceForAddress" /\ last.addr = addr THEN <<last.out>> ELSE <<>>

BalanceForAddressDropsClient(addr) ==
    /\ ~crashed
    /\ last' = [op |-> "BalanceForAddress", addr |-> addr,
                out |-> BalanceReturn(addr), prev |-> PrevBalance(addr),
                pre |-> Fields, eff |-> Effects]
    /\ crashed' = (BalanceReturn(addr).err = Panic)
    /\ rpcCli' = IF BalanceReturn(addr).queried THEN Nil ELSE rpcCli
    /\ UNCHANGED <<ctx, cancel, queryCli, stakingCli, coreConn, lastPayForData,
                   payForDataCount>>
    /\ UNCHANGED <<runtime, stoppedSince, environment, succeeded, signing>>

BalanceForAddress(addr) ==
    /\ ~crashed
    /\ last' = [op |-> "BalanceForAddress", addr |-> addr,
                out |-> BalanceReturn(addr), prev |-> PrevBalance(addr),
                pre |-> Fields, eff |-> Effects]
    /\ crashed' = (BalanceReturn(addr).err = Panic)
    /\ UNCHANGED <<accessor, runtime, stoppedSince, environment, succeeded,
                   signing>>

\* ------------------------------------------- transaction-building operations
ErrInvalidAmount == "state: amount must be greater than zero"
ErrSignerAddress == "GetSignerInfo().GetAddress error"
ErrSequenceQuery == "QueryAccountNumber error"
ErrSign == "BuildSignedTx error"
ErrEncode == "EncodeTx error"
ErrBroadcast == "BroadcastTx error"

\* Successful broadcasts a behaviour may hold.
MaxSeq == 2

\* sdktx.BroadcastMode.
ModeBlock == "BROADCAST_MODE_BLOCK"

ModeSync == "BROADCAST_MODE_SYNC"

ModeAsync == "BROADCAST_MODE_ASYNC"

BroadcastModes == {ModeBlock, ModeSync, ModeAsync}

TxOps == {"Transfer", "Delegate", "Undelegate", "BeginRedelegate",
          "CancelUnbondingDelegation"}

\* Amounts a caller may pass: nil, and integers around zero and around both
\* ends of int64.
Amounts == {NilInt} \cup {IntOf(n) : n \in {MinInt64 - 1, MinInt64, -1, 0, 1,
                                             MaxInt64, MaxInt64 + 1}}

\* Heights a caller may pass to CancelUnbondingDelegation.
CancelHeights == {NilInt, IntOf(-1), IntOf(0), IntOf(1)}

\* Only CancelUnbondingDelegation takes a height.
HeightsFor(op) == IF op = "CancelUnbondingDelegation" THEN CancelHeights ELSE {NilInt}

\* Int.IsNil.
IsNil(i) == i.nil

\* Int.Int64 panics on a nil Int and on a value outside int64.
Int64Panics(i) == i.nil \/ i.v < MinInt64 \/ i.v > MaxInt64

Int64(i) == i.v

\* Where the amount check leads: amount.IsNil() || amount.Int64() <= 0.
AmountCheck(amount) ==
    IF IsNil(amount) THEN "invalid"
    ELSE IF Int64Panics(amount) THEN "panic"
    ELSE IF Int64(amount) <= 0 THEN "invalid"
    ELSE "valid"

\* How a call of a collaborator ends: it panics on a nil connection, returns
\* no error, or returns an error.
Outcome(conn, ok) == IF conn = Nil THEN "panic" ELSE IF ok THEN "ok" ELSE "err"

Returned(c, err) == [c EXCEPT !.pc = "idle", !.err = err]

\* The requests a caller may make.
Requests ==
    {r \in [op : TxOps, amount : Amounts, height : CancelHeights, tx : {0},
            mode : {ModeBlock}] :
        r.height \in HeightsFor(r.op)}

\* The operations that broadcast a transaction the caller built.
SubmitOps == {"SubmitTx", "SubmitTxWithBroadcastMode"}

\* Only SubmitTxWithBroadcastMode takes a mode; SubmitTx broadcasts in block
\* mode.
ModesFor(op) == IF op = "SubmitTxWithBroadcastMode" THEN BroadcastModes ELSE {ModeBlock}

\* The requests to broadcast a transaction signed with sequence number tx.
SubmitRequests ==
    {r \in [op : SubmitOps, amount : {NilInt}, height : {NilInt}, tx : 0..1,
            mode : BroadcastModes] :
        r.mode \in ModesFor(r.op)}

Init ==
    /\ InitAccessor
    /\ QuietChain
    /\ request = [p \in Callers |-> DefaultRequest]

\* The first caller broadcasts a transaction it built.
InitSubmit ==
    /\ InitAccessor
    /\ QuietChain
    /\ request \in {[p \in Callers |-> IF p = 1 THEN r ELSE DefaultRequest] :
                       r \in SubmitRequests}

\* The first caller makes any request.
InitTx ==
    /\ InitAccessor
    /\ QuietChain
    /\ request \in {[p \in Callers |-> IF p = 1 THEN r ELSE DefaultRequest] : r \in Requests}

\* The entry of Transfer, Delegate, Undelegate, BeginRedelegate and
\* CancelUnbondingDelegation up to the call of constructSignedTx: the amount
\* check, the signer's address (addrOk: GetAddress returned one) and the
\* message; CancelUnbondingDelegation puts height.Int64() into its message.
Call(p, addrOk) ==
    /\ ~crashed
    /\ call[p].pc = "idle"
    /\ request[p].op \in TxOps
    /\ chainSeq < MaxSeq
    /\ LET op == request[p].op
           amount == request[p].amount
           height == request[p].height
           c == [IdleCall EXCEPT !.op = op, !.amount = amount, !.height = height]
           checked == AmountCheck(amount)
           withAddr == [c EXCEPT !.events = <<<<"GetSignerInfo", Outcome(1, addrOk)>>>>]
       IN  IF checked = "invalid"
           THEN call' = [call EXCEPT ![p] = Returned(c, ErrInvalidAmount)]
                /\ UNCHANGED crashed
           ELSE IF checked = "panic"
           THEN call' = [call EXCEPT ![p] = Returned(c, Panic)]
                /\ crashed' = TRUE
           ELSE IF ~addrOk
           THEN call' = [call EXCEPT ![p] = Returned(withAddr, ErrSignerAddress)]
                /\ UNCHANGED crashed
           ELSE IF op = "CancelUnbondingDelegation" /\ Int64Panics(height)
           THEN call' = [call EXCEPT ![p] = Returned(withAddr, Panic)]
                /\ crashed' = TRUE
           ELSE call' = [call EXCEPT ![p] =
                            [withAddr EXCEPT !.pc = "refresh",
                                             !.msgHeight = IF op = "CancelUnbondingDelegation"
                                                           THEN Int64(height) ELSE 0]]
                /\ UNCHANGED crashed
    /\ UNCHANGED <<accessor, runtime, stoppedSince, environment, succeeded,
                   signerSeq, chainSeq, last>>

\* The entry of SubmitTx and SubmitTxWithBroadcastMode for a caller that built
\* the transaction itself: nothing is checked before the broadcast.
CallSubmit(p) ==
    /\ ~crashed
    /\ call[p].pc = "idle"
    /\ request[p].op \in SubmitOps
    /\ chainSeq < MaxSeq
    /\ call' = [call EXCEPT ![p] =
                    [IdleCall EXCEPT !.pc = "broadcast", !.op = request[p].op,
                                     !.txSeq = request[p].tx, !.mode = request[p].mode]]
    /\ UNCHANGED <<accessor, runtime, crashed, stoppedSince, environment,
                   succeeded, signerSeq, chainSeq, last>>

\* Another caller is at step pc of its operation.
PeerAt(p, pc) == \E q \in Callers \ {p} : call[q].pc = pc

\* constructSignedTx, first statement: ca.signer.QueryAccountNumber(ctx,
\* ca.coreConn) stores the account's sequence number in the signer (ok), or
\* fails; a nil connection is dereferenced by the gRPC call.
RefreshSwallowsError(p, ok) ==
    /\ ~crashed
    /\ call[p].pc = "refresh"
    /\ LET c == [call[p] EXCEPT !.events = Append(@, <<"QueryAccountNumber", Outcome(coreConn, ok)>>),
                                !.conn = coreConn]
       IN  IF coreConn = Nil
           THEN /\ call' = [call EXCEPT ![p] = Returned(c, Panic)]
                /\ crashed' = TRUE
                /\ UNCHANGED signerSeq
           ELSE IF ok
           THEN /\ call' = [call EXCEPT ![p] =
                               [c EXCEPT !.pc = "sign", !.peerWaiting = PeerAt(p, "sign")]]
                /\ signerSeq' = chainSeq
                /\ UNCHANGED crashed
           ELSE /\ call' = [call EXCEPT ![p] = [c EXCEPT !.pc = "sign",
                                                         !.err = ErrSequenceQuery]]
                /\ UNCHANGED <<signerSeq, crashed>>
    /\ UNCHANGED <<accessor, runtime, stoppedSince, environment, succeeded,
                   chainSeq, last>>

RefreshUnderLock(p, ok) ==
    /\ ~crashed
    /\ call[p].pc = "refresh"
    /\ ~PeerAt(p, "sign") /\ ~PeerAt(p, "encode")
    /\ LET c == [call[p] EXCEPT !.events = Append(@, <<"QueryAccountNumber", Outcome(coreConn, ok)>>),
                                !.conn = coreConn]
       IN  IF coreConn = Nil
           THEN /\ call' = [call EXCEPT ![p] = Returned(c, Panic)]
                /\ crashed' = TRUE
                /\ UNCHANGED signerSeq
           ELSE IF ok
           THEN /\ call' = [call EXCEPT ![p] =
                               [c EXCEPT !.pc = "sign", !.peerWaiting = PeerAt(p, "sign")]]
                /\ signerSeq' = chainSeq
                /\ UNCHANGED crashed
           ELSE /\ call' = [call EXCEPT ![p] = Returned(c, ErrSequenceQuery)]
                /\ UNCHANGED <<signerSeq, crashed>>
    /\ UNCHANGED <<accessor, runtime, stoppedSince, environment, succeeded,
                   chainSeq, last>>

Refresh(p, ok) ==
    /\ ~crashed
    /\ call[p].pc = "refresh"
    /\ LET c == [call[p] EXCEPT !.events = Append(@, <<"QueryAccountNumber", Outcome(coreConn, ok)>>),
                                !.conn = coreConn]
       IN  IF coreConn = Nil
           THEN /\ call' = [call EXCEPT ![p] = Returned(c, Panic)]
                /\ crashed' = TRUE
                /\ UNCHANGED signerSeq
           ELSE IF ok
           THEN /\ call' = [call EXCEPT ![p] =
                               [c EXCEPT !.pc = "sign", !.peerWaiting = PeerAt(p, "sign")]]
                /\ signerSeq' = chainSeq
                /\ UNCHANGED crashed
           ELSE /\ call' = [call EXCEPT ![p] = Returned(c, ErrSequenceQuery)]
                /\ UNCHANGED <<signerSeq, crashed>>
    /\ UNCHANGED <<accessor, runtime, stoppedSince, environment, succeeded,
                   chainSeq, last>>

\* constructSignedTx, second statement: BuildSignedTx signs the message with
\* the sequence number the signer holds (ok), or fails.
Sign(p, ok) ==
    /\ ~crashed
    /\ call[p].pc = "sign"
    /\ LET c == [call[p] EXCEPT !.events = Append(@, <<"BuildSignedTx", Outcome(1, ok)>>)]
       IN  IF ok
           THEN call' = [call EXCEPT ![p] =
                            [c EXCEPT !.pc = "encode", !.txSeq = signerSeq,
                                      !.contended = PeerAt(p, "sign")]]
           ELSE call' = [call EXCEPT ![p] = Returned(c, ErrSign)]
    /\ UNCHANGED <<accessor, runtime, crashed, stoppedSince, environment,
                   succeeded, signerSeq, chainSeq, last>>

\* constructSignedTx, last statement: EncodeTx.
Encode(p, ok) ==
    /\ ~crashed
    /\ call[p].pc = "encode"
    /\ LET c == [call[p] EXCEPT !.events = Append(@, <<"EncodeTx", Outcome(1, ok)>>)]
       IN  IF ok
           THEN call' = [call EXCEPT ![p] = [c EXCEPT !.pc = "broadcast"]]
           ELSE call' = [call EXCEPT ![p] = Returned(c, ErrEncode)]
    /\ UNCHANGED <<accessor, runtime, crashed, stoppedSince, environment,
                   succeeded, signerSeq, chainSeq, last>>

\* SubmitTx and SubmitTxWithBroadcastMode: apptypes.BroadcastTx over
\* ca.coreConn in the call's mode.  delivered: the node answered.  The node
\* accepts only a transaction signed with the account's current sequence
\* number, and may reject that one too (accept FALSE); in async mode it
\* answers code 0 before it checks anything.  The response is returned with a
\* nil error whatever its code.
CodeWrongSequence == 32

CodeInsufficientFunds == 5

\* The code of the node's response.
ResponseCode(c, accept) ==
    IF c.mode = ModeAsync THEN 0
    ELSE IF c.txSeq # chainSeq THEN CodeWrongSequence
    ELSE IF ~accept THEN CodeInsufficientFunds
    ELSE 0

SubmitTxRejectsNonZero(p, delivered, accept) ==
    /\ ~crashed
    /\ call[p].pc = "broadcast"
    /\ LET c == [call[p] EXCEPT !.events = Append(@, <<"BroadcastTx", Outcome(coreConn, delivered)>>),
                                !.conn = coreConn]
           included == c.txSeq = chainSeq /\ accept
       IN  IF coreConn = Nil
           THEN /\ call' = [call EXCEPT ![p] = Returned(c, Panic)]
                /\ crashed' = TRUE
                /\ UNCHANGED chainSeq
           ELSE IF ~delivered
           THEN /\ call' = [call EXCEPT ![p] = Returned(c, ErrBroadcast)]
                /\ UNCHANGED <<chainSeq, crashed>>
           ELSE /\ call' = [call EXCEPT ![p] =
                               IF ResponseCode(c, accept) # 0
                               THEN Returned(c, ErrBroadcast)
                               ELSE Returned([c EXCEPT !.resp = <<[Code |-> 0]>>], NoErr)]
                /\ chainSeq' = IF included THEN chainSeq + 1 ELSE chainSeq
                /\ UNCHANGED crashed
    /\ UNCHANGED <<accessor, runtime, stoppedSince, environment, succeeded,
                   signerSeq, last>>

SubmitTx(p, delivered, accept) ==
    /\ ~crashed
    /\ call[p].pc = "broadcast"
    /\ LET c == [call[p] EXCEPT !.events = Append(@, <<"BroadcastTx", Outcome(coreConn, delivered)>>),
                                !.conn = coreConn]
           included == c.txSeq = chainSeq /\ accept
       IN  IF coreConn = Nil
           THEN /\ call' = [call EXCEPT ![p] = Returned(c, Panic)]
                /\ crashed' = TRUE
                /\ UNCHANGED chainSeq
           ELSE IF ~delivered
           THEN /\ call' = [call EXCEPT ![p] = Returned(c, ErrBroadcast)]
                /\ UNCHANGED <<chainSeq, crashed>>
           ELSE /\ call' = [call EXCEPT ![p] =
                               Returned([c EXCEPT !.resp = <<[Code |-> ResponseCode(c, accept)]>>],
                                        NoErr)]
                /\ chainSeq' = IF included THEN chainSeq + 1 ELSE chainSeq
                /\ UNCHANGED crashed
    /\ UNCHANGED <<accessor, runtime, stoppedSince, environment, succeeded,
                   signerSeq, last>>

\* --------------------------------------------------------- SubmitPayForData
ErrPayForData == "payment.SubmitPayForData error"

\* SubmitPayForData calls a behaviour may hold: those that succeeded and those
\* in progress.
MaxPfd == 2

\* The largest reading of the clock.
MaxClock == 3

InFlight == {q \in Callers : call[q].pc # "idle"}

\* What payment.SubmitPayForData may return: a response or nil, with or
\* without an error, and never nil with no error.
PaymentAnswers ==
    {a \in [resp : {<<>>, <<[Code |-> 0]>>, <<[Code |-> CodeInsufficientFunds]>>},
            failed : BOOLEAN] :
        a.resp # <<>> \/ a.failed}

\* The clock advances between any two steps.
Tick ==
    /\ ~crashed
    /\ clock < MaxClock
    /\ clock' = clock + 1
    /\ UNCHANGED <<accessor, runtime, crashed, stoppedSince, headAns, nodeAns,
                   request, succeeded, signing, last>>

\* SubmitPayForData up to its call of payment.SubmitPayForData, which gets
\* ca.coreConn as it is now.
SubmitPayForData(p) ==
    /\ ~crashed
    /\ call[p].pc = "idle"
    /\ succeeded + Cardinality(InFlight) < MaxPfd
    /\ call' = [call EXCEPT ![p] =
                    [IdleCall EXCEPT !.pc = "payment", !.op = "SubmitPayForData",
                                     !.conn = coreConn]]
    /\ UNCHANGED <<accessor, runtime, crashed, stoppedSince, environment,
                   succeeded, signerSeq, chainSeq, last>>

\* payment.SubmitPayForData returns ans, and the condition
\* response.Code == 0 && err == nil is evaluated: its left operand reads a
\* field through response, so a nil response panics whatever err is.  When
\* the condition holds, time.Now().UnixMilli() is read.
PaymentReturns(p, ans) ==
    /\ ~crashed
    /\ call[p].pc = "payment"
    /\ LET conn == call[p].conn
           c == [call[p] EXCEPT
                    !.events = Append(@, <<"payment.SubmitPayForData",
                                           Outcome(conn, ~ans.failed)>>),
                    !.answer = IF conn = Nil THEN <<>> ELSE <<ans>>]
       IN  IF conn = Nil \/ ans.resp = <<>>
           THEN /\ call' = [call EXCEPT ![p] = Returned(c, Panic)]
                /\ crashed' = TRUE
           ELSE IF ans.resp[1].Code = 0 /\ ~ans.failed
           THEN /\ call' = [call EXCEPT ![p] = [c EXCEPT !.pc = "stamp", !.stamp = clock]]
                /\ UNCHANGED crashed
           ELSE /\ call' = [call EXCEPT ![p] =
                               Returned([c EXCEPT !.resp = ans.resp],
                                        IF ans.failed THEN ErrPayForData ELSE NoErr)]
                /\ UNCHANGED crashed
    /\ UNCHANGED <<accessor, runtime, stoppedSince, environment, succeeded,
                   signerSeq, chainSeq, last>>

\* ca.lastPayForData = <the time read>, then the load of ca.payForDataCount
\* that starts ca.payForDataCount++.
StoreLastPayForData(p) ==
    /\ ~crashed
    /\ call[p].pc = "stamp"
    /\ lastPayForData' = call[p].stamp
    /\ call' = [call EXCEPT ![p] = [@ EXCEPT !.pc = "count", !.wrote = TRUE,
                                              !.loaded = payForDataCount]]
    /\ UNCHANGED <<ctx, cancel, queryCli, stakingCli, rpcCli, coreConn,
                   payForDataCount>>
    /\ UNCHANGED <<runtime, crashed, stoppedSince, environment, succeeded,
                   signerSeq, chainSeq, last>>

\* The store that ends ca.payForDataCount++, and the return of the response.
IncrementPayForDataCount(p) ==
    /\ ~crashed
    /\ call[p].pc = "count"
    /\ payForDataCount' = call[p].loaded + 1
    /\ succeeded' = succeeded + 1
    /\ call' = [call EXCEPT ![p] =
                    Returned([@ EXCEPT !.resp = call[p].answer[1].resp], NoErr)]
    /\ UNCHANGED <<ctx, cancel, queryCli, stakingCli, rpcCli, coreConn,
                   lastPayForData>>
    /\ UNCHANGED <<runtime, crashed, stoppedSince, environment, signerSeq,
                   chainSeq, last>>

\* ---------------------------------------------------------- specifications
LifecycleNext ==
    \/ \E dialOk, rpcOk \in BOOLEAN : Start(dialOk, rpcOk)
    \/ \E closeOk \in BOOLEAN : Stop(closeOk)
    \/ IsStopped

SpecLifecycle == Init /\ [][LifecycleNext]_vars

BalanceNext ==
    \/ \E dialOk, rpcOk \in BOOLEAN : Start(dialOk, rpcOk)
    \/ \E closeOk \in BOOLEAN : Stop(closeOk)
    \/ \E addr \in Addrs : BalanceForAddress(addr)

SpecBalance == InitBalance /\ [][BalanceNext]_vars

\* One caller at a time runs the transaction operations.
TxNext ==
    \/ \E dialOk, rpcOk \in BOOLEAN : Start(dialOk, rpcOk)
    \/ \E closeOk \in BOOLEAN : Stop(closeOk)
    \/ \E addrOk \in BOOLEAN : Call(1, addrOk)
    \/ \E ok \in BOOLEAN : Refresh(1, ok)
    \/ \E ok \in BOOLEAN : Sign(1, ok)
    \/ \E ok \in BOOLEAN : Encode(1, ok)
    \/ \E delivered, accept \in BOOLEAN : SubmitTx(1, delivered, accept)

SpecTx == InitTx /\ [][TxNext]_vars

\* One caller broadcasts transactions it built itself.
SubmitNext ==
    \/ \E dialOk, rpcOk \in BOOLEAN : Start(dialOk, rpcOk)
    \/ \E closeOk \in BOOLEAN : Stop(closeOk)
    \/ CallSubmit(1)
    \/ \E delivered, accept \in BOOLEAN : SubmitTx(1, delivered, accept)

SpecSubmit == InitSubmit /\ [][SubmitNext]_vars

\* Two callers run Transfer at once.
RacingCallers == {1, 2}

RaceNext ==
    \/ \E dialOk, rpcOk \in BOOLEAN : Start(dialOk, rpcOk)
    \/ \E p \in RacingCallers, addrOk \in BOOLEAN : Call(p, addrOk)
    \/ \E p \in RacingCallers, ok \in BOOLEAN : Refresh(p, ok)
    \/ \E p \in RacingCallers, ok \in BOOLEAN : Sign(p, ok)
    \/ \E p \in RacingCallers, ok \in BOOLEAN : Encode(p, ok)
    \/ \E p \in RacingCallers, delivered, accept \in BOOLEAN : SubmitTx(p, delivered, accept)

SpecRace == Init /\ [][RaceNext]_vars

\* Any number of callers submit PayForData transactions at once.
PfdNext ==
    \/ \E dialOk, rpcOk \in BOOLEAN : Start(dialOk, rpcOk)
    \/ Tick
    \/ \E p \in Callers : SubmitPayForData(p)
    \/ \E p \in Callers, ans \in PaymentAnswers : PaymentReturns(p, ans)
    \/ \E p \in Callers : StoreLastPayForData(p)
    \/ \E p \in Callers : IncrementPayForDataCount(p)

SpecPfd == Init /\ [][PfdNext]_vars

\* ------------------------------------------------------- lifecycle claims
AllHandlesUnbound ==
    coreConn = Nil /\ queryCli = Nil /\ stakingCli = Nil /\ rpcCli = Nil

StartFailed == last.op = "Start" /\ last.err \in {ErrDial, ErrRPCClient}

\* C1: after a Start that failed in the dial or in creating the RPC client,
\* the connection and the three client handles are all unbound.
C1_FailedStartKeepsNoPartialState == StartFailed => AllHandlesUnbound

\* C2: Start on an accessor that already holds a connection returns the
\* already-connected error and leaves the connection, the three client
\* handles, the lifetime context and its cancel function as they were, and
\* cancels and closes nothing.
C2_SecondStartChangesNothing ==
    (last.op = "Start" /\ last.pre.coreConn # Nil) =>
        /\ last.err = ErrAlreadyConnected
        /\ Fields = last.pre
        /\ Effects = last.eff

C2_Witness ==
    /\ last.op = "Start"
    /\ last.pre.coreConn # Nil
    /\ last.pre.rpcCli = last.pre.coreConn
    /\ last.err = ErrAlreadyConnected

\* The accessor as NewCoreAccessor returns it, Start never called.
FreshFields ==
    [ctx |-> Nil, cancel |-> Nil, queryCli |-> Nil, stakingCli |-> Nil,
     rpcCli |-> Nil, coreConn |-> Nil, lastPayForData |-> 0, payForDataCount |-> 0]

NeverStarted == nextId = 0

\* C3: Stop on a freshly constructed accessor, Start never called, returns no
\* error, invokes no cancel function, closes nothing and leaves every field
\* unchanged.
C3_StopBeforeStartIsNoOp ==
    (last.op = "Stop" /\ NeverStarted) =>
        /\ last.err = NoErr
        /\ ~crashed
        /\ Fields = FreshFields
        /\ Effects = last.eff
        /\ DOMAIN cancelCalls = {}
        /\ DOMAIN closeCalls = {}

C3_Witness == last.op = "Stop" /\ NeverStarted /\ last.err = NoErr

\* C4: the cancel function of each lifetime context is invoked at most once,
\* Stop never invokes a nil cancel function, and a Stop that follows a Stop
\* with no Start call in between returns no error and changes no state.
C4_StopIsIdempotent ==
    /\ \A i \in DOMAIN cancelCalls : cancelCalls[i] <= 1
    /\ last.op = "Stop" => last.err # Panic
    /\ (last.op = "Stop" /\ last.afterStop) =>
           /\ last.err = NoErr
           /\ Fields = last.pre
           /\ Effects = last.eff

\* A second Stop after a Stop whose Close failed: the connection is still
\* held, the cancel function was invoked once and is nil.
C4_Witness ==
    /\ last.op = "Stop"
    /\ last.afterStop
    /\ last.pre.coreConn # Nil
    /\ last.pre.cancel = Nil
    /\ cancelCalls[last.pre.ctx] = 1

\* C5: after a Stop that follows a successful Start and closes the
\* connection without error, the connection and the three client handles
\* bound by that Start are all unbound.
C5_StopReleasesAllHandles ==
    (/\ last.op = "Stop"
     /\ last.err = NoErr
     /\ last.pre.cancel # Nil
     /\ last.pre.coreConn # Nil
     /\ last.pre.queryCli = last.pre.coreConn
     /\ last.pre.stakingCli = last.pre.coreConn
     /\ last.pre.rpcCli = last.pre.coreConn) => AllHandlesUnbound

\* C6: in every reachable state IsStopped completes without failure and
\* returns true exactly when the current lifetime context has been canceled.
C6_IsStoppedTotalAndExact ==
    last.op = "IsStopped" =>
        /\ last.err = NoErr
        /\ ~crashed
        /\ last.ret = (ctx \in canceled)

\* --------------------------------------------------------- balance claims
BalanceQueried == last.op = "BalanceForAddress" /\ last.out.queried

\* C9: BalanceForAddress issues its proof-carrying query at height
\* head.Height - 1 and, when it verifies, verifies against the AppHash of
\* that same head: a query at height H is verified against the root that
\* the header of block H + 1 carries, so a verified balance is the value the
\* chain stores at height H.
C9_QueryBelowHeadVerifiedAgainstHead ==
    BalanceQueried =>
        /\ last.out.queryHeight = headAns.head.Height - 1
        /\ last.out.prove
        /\ last.out.verified =>
               /\ last.out.root = headAns.head.AppHash
               /\ last.out.root = HeadAt(last.out.queryHeight + 1).AppHash
        /\ (last.out.verified /\ last.out.balance # <<>>) =>
               last.out.balance[1].Amount =
                   NewIntFromString(StoreValue(last.out.queryKey, last.out.queryHeight)).int

C9_Witness ==
    /\ BalanceQueried
    /\ last.out.verified
    /\ last.out.err = NoErr
    /\ last.out.balance # <<>>
    /\ headAns.head.Height > 1

\* C10: a balance built from a non-empty value is returned only when the
\* proof verifies that value against the head's root; when verification
\* fails the call returns an error and no balance.
C10_ProofFailureIsAnError ==
    (BalanceQueried /\ nodeAns.kind = "ok" /\ nodeAns.value # <<>>) =>
        LET proven == VerifyValue(nodeAns.proof, headAns.head.AppHash,
                                  <<StoreKey, PrefixedAccountKey(last.addr)>>,
                                  nodeAns.value)
        IN  /\ last.out.balance # <<>> => proven
            /\ ~proven => (last.out.balance = <<>> /\ last.out.err # NoErr)
            /\ (last.out.verified /\ ~proven) => last.out.err = ErrProof

\* A parseable value with the genuine proof of another height is rejected.
C10_Witness ==
    /\ BalanceQueried
    /\ last.out.err = ErrProof
    /\ ~nodeAns.proof.forged
    /\ nodeAns.value = StoreValue(nodeAns.proof.key, nodeAns.proof.ht)
    /\ last.out.balance = <<>>

\* C11: when the node answers the query with an empty value,
\* BalanceForAddress returns the balance {native denomination, 0} and no
\* error, without verifying anything, whatever the head's root and whatever
\* proof came with the answer.
C11_EmptyValueIsZeroBalance ==
    (BalanceQueried /\ nodeAns.kind = "ok" /\ nodeAns.value = <<>>) =>
        /\ last.out.balance = <<[Denom |-> BondDenom, Amount |-> 0]>>
        /\ last.out.err = NoErr
        /\ ~last.out.verified

\* An empty value that came with a forged proof is returned as zero.
C11_Witness ==
    /\ BalanceQueried
    /\ nodeAns.kind = "ok"
    /\ nodeAns.value = <<>>
    /\ nodeAns.proof.forged
    /\ last.out.balance = <<[Denom |-> BondDenom, Amount |-> 0]>>

\* C12: BalanceForAddress changes no field of the accessor, cancels and
\* closes nothing, and a call that follows a call for the same address, with
\* the same head, value and proof, returns what that call returned.
C12_BalanceIsReadOnlyAndRepeatable ==
    last.op = "BalanceForAddress" =>
        /\ Fields = last.pre
        /\ Effects = last.eff
        /\ last.prev # <<>> => last.out = last.prev[1]

\* A verified balance returned a second time.
C12_Witness ==
    /\ BalanceQueried
    /\ last.prev # <<>>
    /\ last.out.verified
    /\ last.out.err = NoErr
    /\ last.out.balance # <<>>

\* ----------------------------------------------------- transaction claims
\* Within int64 the amount check rejects every amount that is nil or not
\* greater than zero before anything else is called.
InRangeInvalidAmountRejected ==
    \A p \in Callers :
        (/\ call[p].op \in TxOps
         /\ call[p].amount.nil \/ (MinInt64 <= call[p].amount.v /\ call[p].amount.v <= 0)) =>
            /\ call[p].pc = "idle"
            /\ call[p].err = ErrInvalidAmount
            /\ call[p].events = <<>>
            /\ call[p].resp = <<>>

\* The calls a transaction operation has made so far, by name.
Made(c, name) == {i \in 1..Len(c.events) : c.events[i][1] = name}

MadeWith(c, name, outcome) == {i \in 1..Len(c.events) : c.events[i] = <<name, outcome>>}

\* C7: for every amount that is nil or not greater than zero, each of the
\* five operations returns ErrInvalidAmount and calls neither the signer nor
\* the node.
C7_InvalidAmountRejectedUntouched ==
    \A p \in Callers :
        (call[p].op \in TxOps /\ (call[p].amount.nil \/ call[p].amount.v <= 0)) =>
            /\ call[p].pc = "idle"
            /\ call[p].err = ErrInvalidAmount
            /\ call[p].events = <<>>
            /\ call[p].resp = <<>>

\* C8: the refresh of the sequence number completes before signing starts;
\* when the refresh fails nothing is signed, encoded or broadcast, when
\* signing or encoding fails nothing is broadcast, and the failing call's
\* error is what the operation returns.
C8_RefreshThenSignThenBroadcast ==
    \A p \in Callers :
        LET c == call[p]
        IN  /\ \A i \in Made(c, "BuildSignedTx") :
                   \E j \in MadeWith(c, "QueryAccountNumber", "ok") : j < i
            /\ \A i \in Made(c, "BroadcastTx") :
                   /\ \E j \in MadeWith(c, "BuildSignedTx", "ok") : j < i
                   /\ \E j \in MadeWith(c, "EncodeTx", "ok") : j < i
            /\ MadeWith(c, "QueryAccountNumber", "err") # {} =>
                   /\ Made(c, "BuildSignedTx") = {}
                   /\ Made(c, "EncodeTx") = {}
                   /\ Made(c, "BroadcastTx") = {}
                   /\ c.pc = "idle" /\ c.err = ErrSequenceQuery /\ c.resp = <<>>
            /\ MadeWith(c, "BuildSignedTx", "err") # {} =>
                   /\ Made(c, "EncodeTx") = {}
                   /\ Made(c, "BroadcastTx") = {}
                   /\ c.pc = "idle" /\ c.err = ErrSign /\ c.resp = <<>>
            /\ MadeWith(c, "EncodeTx", "err") # {} =>
                   /\ Made(c, "BroadcastTx") = {}
                   /\ c.pc = "idle" /\ c.err = ErrEncode /\ c.resp = <<>>

\* An operation whose refresh failed has returned the refresh's error.
C8_Witness ==
    \E p \in Callers :
        /\ call[p].op \in TxOps
        /\ call[p].pc = "idle"
        /\ MadeWith(call[p], "QueryAccountNumber", "err") # {}
        /\ call[p].err = ErrSequenceQuery

\* C13: SubmitTx and SubmitTxWithBroadcastMode return the node's response
\* with a nil error whenever the node answered, whatever the response's code;
\* when the broadcast itself fails they return the error and no response.
C13_NonZeroCodeIsNotAnError ==
    \A p \in Callers :
        LET c == call[p]
        IN  (c.op \in SubmitOps /\ c.pc = "idle") =>
                /\ MadeWith(c, "BroadcastTx", "ok") # {} =>
                       /\ c.err = NoErr
                       /\ c.resp # <<>>
                       /\ c.resp[1].Code = 0 =>
                              (c.mode = ModeAsync \/ c.txSeq = chainSeq - 1)
                /\ MadeWith(c, "BroadcastTx", "err") # {} =>
                       /\ c.err = ErrBroadcast
                       /\ c.resp = <<>>

\* SubmitTxWithBroadcastMode in sync mode returned a rejection as a response.
C13_Witness ==
    \E p \in Callers :
        /\ call[p].op = "SubmitTxWithBroadcastMode"
        /\ call[p].mode = ModeSync
        /\ call[p].pc = "idle"
        /\ call[p].resp # <<>>
        /\ call[p].resp[1].Code # 0
        /\ call[p].err = NoErr

\* ------------------------------------------------------- PayForData claims
PfdReturned(c) == c.op = "SubmitPayForData" /\ c.pc = "idle"

\* C14: SubmitPayForData writes the timestamp and increments the counter
\* exactly when the response's code is 0 and no error came with it; every
\* other submission (an error with or without a response, or a non-zero
\* code) writes neither and returns the failure to the caller.
C14_MetricsExactlyOnSuccess ==
    \A p \in Callers :
        LET c == call[p]
        IN  (PfdReturned(c) /\ c.conn # Nil) =>
                /\ c.err # Panic
                /\ c.answer # <<>>
                /\ c.resp = c.answer[1].resp
                /\ (c.err # NoErr) = c.answer[1].failed
                /\ c.wrote = (/\ c.answer[1].resp # <<>>
                              /\ c.answer[1].resp[1].Code = 0
                              /\ ~c.answer[1].failed)

\* C15: ca.lastPayForData never decreases, in any sequence or interleaving
\* of submissions.
C15_LastPayForDataNeverDecreases == [][lastPayForData' >= lastPayForData]_vars

\* C20: once every SubmitPayForData call has returned, the counter equals
\* the number of calls that succeeded.
C20_NoIncrementLost ==
    (InFlight = {} /\ ~crashed) => payForDataCount = succeeded

\* ------------------------------------------------------ concurrency claims
Signed(c) == c.pc \in {"encode", "broadcast"}

\* C16: nothing serializes the refresh-then-sign sequence: a caller can
\* refresh the sequence number while another caller has refreshed and not
\* yet signed, and when two calls have both refreshed before either signs,
\* both transactions are signed with the same sequence number.
C16_RefreshThenSignNotSerialized ==
    \A p, q \in RacingCallers :
        p # q =>
            /\ (~crashed /\ coreConn # Nil /\ call[p].pc = "sign"
                    /\ call[q].pc = "refresh") =>
                   ENABLED (Refresh(q, TRUE) /\ call'[q].pc = "sign")
            /\ (Signed(call[p]) /\ Signed(call[q]) /\ call[p].contended
                    /\ call[q].peerWaiting) =>
                   call[p].txSeq = call[q].txSeq

\* Both callers hold a signed transaction; the first signed while the second
\* had refreshed and not signed, and the sequence numbers are equal.
C16_Witness ==
    \E p, q \in RacingCallers :
        /\ p # q
        /\ Signed(call[p]) /\ Signed(call[q])
        /\ call[p].contended
        /\ call[q].peerWaiting
        /\ MadeWith(call[p], "QueryAccountNumber", "ok") # {}
        /\ MadeWith(call[q], "QueryAccountNumber", "ok") # {}
        /\ call[p].txSeq = call[q].txSeq

\* ------------------------------------------------------ precondition claims
\* C17: CancelUnbondingDelegation called with a valid amount and a height
\* that is unset or negative returns an error before it calls the signer,
\* queries the sequence number or broadcasts, and builds no transaction with
\* that height.
C17_CancelRejectsBadHeight ==
    \A p \in Callers :
        (/\ call[p].op = "CancelUnbondingDelegation"
         /\ AmountCheck(call[p].amount) = "valid"
         /\ call[p].height.nil \/ call[p].height.v < 0) =>
            /\ call[p].pc = "idle"
            /\ call[p].err \notin {NoErr, Panic}
            /\ call[p].events = <<>>
            /\ call[p].resp = <<>>

\* No session is active: no Start has succeeded yet, or a Stop has closed the
\* connection and Start was not called since.
NoSession(f) ==
    \/ f.rpcCli = Nil
    \/ stoppedSince /\ f.coreConn = Nil /\ f.cancel = Nil

\* C18: BalanceForAddress called while no session is active issues no query,
\* returns no balance and returns an error, without failing on an unbound
\* handle.
C18_BalanceNeedsSession ==
    (last.op = "BalanceForAddress" /\ NoSession(last.pre)) =>
        /\ ~last.out.queried
        /\ last.out.balance = <<>>
        /\ last.out.err \notin {NoErr, Panic}

\* C19: between calls of Start and Stop the accessor holds a connection
\* exactly when it holds a cancel function.
C19_ConnectionIffCancel == (coreConn # Nil) = (cancel # Nil)

====
